---- MODULE Spec2Model ----
(***************************************************************************)
(* Model of cosmic_recurrence_law.py: normalize, evolve_state and the      *)
(* driver loop of recurrence_simulation.                                   *)
(*                                                                         *)
(* Reals are modelled as exact rationals <<n, d>> in lowest terms, d > 0.  *)
(* The Euclidean distance np.linalg.norm(state - s0) is carried as its     *)
(* square (DistSq); the test dist < epsilon is evaluated on the squares,   *)
(* which is the same test for a non-negative dist.                         *)
(* The clamping floor 1e-15 = 1/10^15 of normalize is carried as           *)
(* 1/FloorInv: 10^15 is outside the integer range of the model checker.    *)
(***************************************************************************)
EXTENDS Integers, Sequences, FiniteSets, TLC

\* ---------------------------------------------------------------- bounds
Dim == 3
MaxSteps == 3
FloorInv == 4
Grid == 2

\* ------------------------------------------------------ exact rationals
Abs(x) == IF x < 0 THEN 0 - x ELSE x

RECURSIVE GCD(_, _)
GCD(a, b) == IF b = 0 THEN a ELSE GCD(b, a % b)

Rat(n, d) ==
    LET g == GCD(Abs(n), Abs(d))
        s == IF d < 0 THEN 0 - 1 ELSE 1
    IN  <<(s * n) \div g, (s * d) \div g>>

RatAdd(a, b) ==
    LET g == GCD(a[2], b[2])
    IN  Rat(a[1] * (b[2] \div g) + b[1] * (a[2] \div g), a[2] * (b[2] \div g))

RatNeg(a) == <<0 - a[1], a[2]>>

RatSub(a, b) == RatAdd(a, RatNeg(b))

RatMul(a, b) ==
    LET g1 == GCD(Abs(a[1]), b[2])
        g2 == GCD(Abs(b[1]), a[2])
        h1 == IF g1 = 0 THEN 1 ELSE g1
        h2 == IF g2 = 0 THEN 1 ELSE g2
    IN  Rat((a[1] \div h1) * (b[1] \div h2), (a[2] \div h2) * (b[2] \div h1))

RatDiv(a, b) == RatMul(a, Rat(b[2], b[1]))

RatLess(a, b) ==
    LET g == GCD(a[2], b[2])
    IN  a[1] * (b[2] \div g) < b[1] * (a[2] \div g)

RatLeq(a, b) == ~RatLess(b, a)

RatMax(a, b) == IF RatLess(a, b) THEN b ELSE a

Zero == <<0, 1>>
One == <<1, 1>>

\* ----------------------------------------------------- vectors, matrices
Idx == 1..Dim

RECURSIVE SumUpTo(_, _)
SumUpTo(x, k) == IF k = 0 THEN Zero ELSE RatAdd(SumUpTo(x, k - 1), x[k])

\* np.sum(v)
Sum(x) == SumUpTo(x, Len(x))

\* transform @ state
MatVec(M, x) == [i \in Idx |-> Sum([j \in Idx |-> RatMul(M[i][j], x[j])])]

\* np.linalg.norm(a - b), squared
DistSq(a, b) ==
    Sum([i \in Idx |-> RatMul(RatSub(a[i], b[i]), RatSub(a[i], b[i]))])

\* ------------------------------------------------------------- normalize
Floor == Rat(1, FloorInv)

\* variant: clamps at a floor that is too small
clip_tinyFloor(x) == [i \in 1..Len(x) |-> RatMax(x[i], RatMul(Floor, Floor))]

\* np.clip(v, 1e-15, None)
clip(x) == [i \in 1..Len(x) |-> RatMax(x[i], Floor)]

\* variant: v / (np.sum(v) + floor)
DivideBySum_padded(c) ==
    [i \in 1..Len(c) |-> RatDiv(c[i], RatAdd(Sum(c), Floor))]

\* v / np.sum(v)
DivideBySum(c) == [i \in 1..Len(c) |-> RatDiv(c[i], Sum(c))]

\* variant: returns the clamped vector without dividing
normalize_noDivide(x) == clip(x)

normalize(x) == DivideBySum(clip(x))

evolve_state(x, M) == normalize(MatVec(M, x))

\* ---------------------------------------------------------------- inputs
\* rng.random(dim): uniform draws from [0, 1), here on a grid of step 1/Grid
RawValues == {Rat(k, Grid) : k \in 0..(Grid - 1)}
RawVectors == [Idx -> RawValues]

Identity == [i \in Idx |-> [j \in Idx |-> IF i = j THEN One ELSE Zero]]

\* cyclic permutation, optionally negating the first row
Shift(neg) ==
    [i \in Idx |-> [j \in Idx |->
        IF j = (i % Dim) + 1
        THEN (IF neg /\ i = 1 THEN RatNeg(One) ELSE One)
        ELSE Zero]]

\* Householder reflection I - (2/Dim) * ones * ones^T (dense)
Householder ==
    [i \in Idx |-> [j \in Idx |->
        RatSub(IF i = j THEN One ELSE Zero, Rat(2, Dim))]]

\* Q of np.linalg.qr(M): some orthonormal matrix
Transforms == {Identity, Shift(FALSE), Shift(TRUE), Householder}

IsOrthonormal(M) ==
    \A i, k \in Idx :
        Sum([j \in Idx |-> RatMul(M[i][j], M[k][j])])
            = (IF i = k THEN One ELSE Zero)

StepBudgets == 0..MaxSteps
Epsilons == {<<0 - 1, 2>>, Zero, <<1, 4>>, <<1, 2>>, <<3, 2>>}

\* arguments of normalize in isolation: any finite reals
NormValues == {<<0 - 1, 2>>, Zero, Floor, <<1, 2>>, <<3, 2>>}
NormInputs == [Idx -> NormValues]

None == 0 - 1

\* ----------------------------------------------------------------- state
VARIABLES steps, epsilon, Q, s0, state, v, distances, t, status, result,
          calls, nv, nnv

vars == <<steps, epsilon, Q, s0, state, v, distances, t, status, result,
          calls, nv, nnv>>

driverVars == <<steps, epsilon, Q, s0, state, distances, t, status, result>>
normVars == <<calls, nv, nnv>>

\* ---------------------------------------------------------------- driver
\* variant: range(1, steps + 2)
RangeHasNext_inclusive(done, budget) == done <= budget

\* for t in range(1, steps + 1): t iterations done so far, one more follows
RangeHasNext(done, budget) == done < budget

\* variant: if dist <= epsilon
DistLess_orEqual(d2, eps) ==
    RatLeq(Zero, eps) /\ RatLeq(d2, RatMul(eps, eps))

\* if dist < epsilon, dist carried as its square d2
DistLess(d2, eps) == RatLess(Zero, eps) /\ RatLess(d2, RatMul(eps, eps))

\* variant: returns the 0-indexed step
SuccessReturn_zeroIndexed(tt, dist, hist) == <<tt - 1, dist, hist>>

\* return t, dist, distances
SuccessReturn(tt, dist, hist) == <<tt, dist, hist>>

\* variant: returns distances[0]
ExhaustedReturn_first(hist) == <<None, hist[1], hist>>

\* return None, distances[-1], distances
ExhaustedReturn(hist) == <<None, hist[Len(hist)], hist>>

Init ==
    /\ steps \in StepBudgets
    /\ epsilon \in Epsilons
    /\ Q \in {M \in Transforms : IsOrthonormal(M)}
    /\ v \in RawVectors
    /\ s0 = normalize(v)
    /\ state = s0
    /\ distances = <<>>
    /\ t = 0
    /\ status = "RUNNING"
    /\ result = <<>>
    /\ calls = 0
    /\ nv = <<>>
    /\ nnv = <<>>

\* variant: the distance is measured to the previous state, not to s0
LoopBody_fromPrevious ==
    /\ status = "RUNNING"
    /\ RangeHasNext(t, steps)
    /\ LET new == MatVec(Q, state)
           st == evolve_state(state, Q)
           dist == DistSq(st, state)
           hist == Append(distances, dist)
       IN  /\ v' = new
           /\ state' = st
           /\ distances' = hist
           /\ t' = t + 1
           /\ IF DistLess(dist, epsilon)
              THEN /\ status' = "SUCCEEDED"
                   /\ result' = SuccessReturn(t + 1, dist, hist)
              ELSE UNCHANGED <<status, result>>
    /\ UNCHANGED <<steps, epsilon, Q, s0>>
    /\ UNCHANGED normVars

LoopBody ==
    /\ status = "RUNNING"
    /\ RangeHasNext(t, steps)
    /\ LET new == MatVec(Q, state)
           st == evolve_state(state, Q)
           dist == DistSq(st, s0)
           hist == Append(distances, dist)
       IN  /\ v' = new
           /\ state' = st
           /\ distances' = hist
           /\ t' = t + 1
           /\ IF DistLess(dist, epsilon)
              THEN /\ status' = "SUCCEEDED"
                   /\ result' = SuccessReturn(t + 1, dist, hist)
              ELSE UNCHANGED <<status, result>>
    /\ UNCHANGED <<steps, epsilon, Q, s0>>
    /\ UNCHANGED normVars

ReturnExhausted ==
    /\ status = "RUNNING"
    /\ ~RangeHasNext(t, steps)
    /\ distances # <<>>
    /\ status' = "EXHAUSTED"
    /\ result' = ExhaustedReturn(distances)
    /\ UNCHANGED <<steps, epsilon, Q, s0, state, v, distances, t>>
    /\ UNCHANGED normVars

\* distances[-1] on the empty list
RaiseIndexError ==
    /\ status = "RUNNING"
    /\ ~RangeHasNext(t, steps)
    /\ distances = <<>>
    /\ status' = "IndexError"
    /\ UNCHANGED <<steps, epsilon, Q, s0, state, v, distances, t, result>>
    /\ UNCHANGED normVars

Next == LoopBody \/ ReturnExhausted \/ RaiseIndexError

Spec == Init /\ [][Next]_vars

\* ------------------------------------------------- normalize in isolation
InitNormalize ==
    /\ v \in NormInputs
    /\ calls = 0
    /\ nv = <<>>
    /\ nnv = <<>>
    /\ steps = 0
    /\ epsilon = Zero
    /\ Q = Identity
    /\ s0 = <<>>
    /\ state = <<>>
    /\ distances = <<>>
    /\ t = 0
    /\ status = "IDLE"
    /\ result = <<>>

NormalizeOnce ==
    /\ calls = 0
    /\ nv' = normalize(v)
    /\ calls' = 1
    /\ UNCHANGED <<v, nnv>>
    /\ UNCHANGED driverVars

NormalizeTwice ==
    /\ calls = 1
    /\ nnv' = normalize(nv)
    /\ calls' = 2
    /\ UNCHANGED <<v, nv>>
    /\ UNCHANGED driverVars

NextNormalize == NormalizeOnce \/ NormalizeTwice

SpecNormalize == InitNormalize /\ [][NextNormalize]_vars

\* ---------------------------------------------------------------- claims
Last(h) == h[Len(h)]
NonNegative(x) == \A i \in 1..Len(x) : RatLeq(Zero, x[i])
AtLeastFloor(x) == \A i \in 1..Len(x) : RatLeq(Floor, x[i])
BelowThreshold(d2) == DistLess(d2, epsilon)

\* C1: the driver ends in SUCCEEDED or EXHAUSTED, and never applies the
\* stepper more often than the step budget allows.
C1_TerminalStates ==
    /\ t <= steps
    /\ status \in {"RUNNING", "SUCCEEDED", "EXHAUSTED"}

\* C2: there is no error outcome: a run that has used its whole budget
\* (also a budget of 0) without reaching the threshold returns the
\* EXHAUSTED result, it does not raise.
C2_NoErrorOutcome ==
    (/\ status # "RUNNING"
     /\ \A k \in 1..Len(distances) : ~BelowThreshold(distances[k]))
        => /\ status = "EXHAUSTED"
           /\ result[1] = None

\* C3: the history has one entry per executed step, never more than the
\* budget, and a step only appends to it.
C3_HistoryLength ==
    /\ [](Len(distances) = t /\ t <= steps)
    /\ [][/\ Len(distances') \in {Len(distances), Len(distances) + 1}
          /\ SubSeq(distances', 1, Len(distances)) = distances]_vars

C3_Witness == t = steps /\ Len(distances) = MaxSteps

\* C4: s0 and every later state have entries >= 0 that sum to 1, also when
\* the normalized vector has zero or negative entries.
C4_Distribution ==
    /\ NonNegative(s0) /\ Sum(s0) = One
    /\ NonNegative(state) /\ Sum(state) = One

C4_Witness ==
    /\ t >= 2
    /\ \E i \in Idx : RatLess(v[i], Zero)
    /\ \E i \in Idx : RatLess(Zero, v[i])

\* C5 as stated: after every step, every entry of the state vector is at
\* least the floor.
C5_FloorBoundsEntries == t >= 1 => AtLeastFloor(state)

\* C5 amended: every entry of the state vector is at least the floor divided
\* by the sum of the clamped entries, and at least the floor itself when
\* that sum is at most 1.
C5_FloorOverSum ==
    /\ \A i \in Idx : RatLeq(RatDiv(Floor, Sum(clip(v))), state[i])
    /\ RatLeq(Sum(clip(v)), One) => AtLeastFloor(state)

C5_Witness ==
    /\ t >= 1
    /\ RatLess(One, Sum(clip(v)))
    /\ \E i \in Idx : RatLess(state[i], Floor)

\* C6 as stated: normalize(normalize(v)) = normalize(v) for every v.
C6_Idempotent == calls = 2 => nnv = nv

\* C6 amended: normalize(normalize(v)) = normalize(v) whenever no entry of
\* normalize(v) is below the floor (so whenever the clamped sum is <= 1).
C6_IdempotentAboveFloor ==
    /\ (calls = 2 /\ AtLeastFloor(nv)) => nnv = nv
    /\ (calls >= 1 /\ RatLeq(Sum(clip(v)), One)) => AtLeastFloor(nv)

C6_Witness ==
    /\ calls = 2
    /\ AtLeastFloor(nv)
    /\ \E i \in Idx : RatLess(v[i], Zero)
    /\ RatLess(Sum(clip(v)), One)
    /\ nnv = nv

\* C7: with epsilon = 0 and a budget of at least one step the run is
\* EXHAUSTED (step None), even when a distance is exactly 0.
C7_ZeroEpsilonExhausts ==
    (epsilon = Zero /\ steps >= 1 /\ status # "RUNNING")
        => (status = "EXHAUSTED" /\ result[1] = None)

C7_Witness ==
    /\ epsilon = Zero
    /\ status = "EXHAUSTED"
    /\ \E k \in 1..Len(distances) : distances[k] = Zero

\* C8: SUCCEEDED returns (t, dist, history) for the first step t whose
\* distance is below epsilon: t entries, the last one is dist and is below
\* epsilon, the earlier ones are not, and t may be the last step of the budget.
C8_SuccessResult ==
    status = "SUCCEEDED" =>
        /\ result = <<t, Last(distances), distances>>
        /\ Len(distances) = t
        /\ t \in 1..steps
        /\ BelowThreshold(Last(distances))
        /\ \A k \in 1..(t - 1) : ~BelowThreshold(distances[k])

C8_Witness == status = "SUCCEEDED" /\ t = steps /\ t >= 2

\* C9: EXHAUSTED returns (None, final distance, history) after the whole
\* budget: steps entries, the last one is the final distance, none is
\* below epsilon.
C9_ExhaustedResult ==
    status = "EXHAUSTED" =>
        /\ result = <<None, Last(distances), distances>>
        /\ Len(distances) = steps
        /\ t = steps
        /\ \A k \in 1..Len(distances) : ~BelowThreshold(distances[k])

C9_Witness ==
    /\ status = "EXHAUSTED"
    /\ steps >= 2
    /\ distances[1] # Last(distances)

\* C10: a step leaves Q and s0 as they are, replaces the state by the
\* evolved state and appends that state's distance to s0.
C10_StepFrame ==
    [][/\ Q' = Q
       /\ s0' = s0
       /\ t' = t + 1 =>
            /\ state' = evolve_state(state, Q)
            /\ distances' = Append(distances, DistSq(state', s0))]_vars

C10_Witness == t >= 2 /\ state # s0 /\ Last(distances) # Zero

====
